---------------------------- MODULE Spec2Model ----------------------------
(***************************************************************************)
(* Model of backend/services/ecourts_scraper.py (class ECourtsScraper).    *)
(*                                                                         *)
(* Text is modelled as a sequence of one-character strings, so that        *)
(* str.strip, str.lower, the substring tests on labels and                 *)
(* datetime.strptime(value, "%d-%m-%Y") are computed character by          *)
(* character.  A parsed HTML document is the tree BeautifulSoup hands to   *)
(* the code, restricted to the elements the code looks at:                 *)
(*   - tables : the <table> elements in document order, each a sequence    *)
(*              of <tr> rows, each a sequence of cells [tag, text];        *)
(*   - selects: the <select> elements in document order, each with its     *)
(*              id, its name and its <option> children [value, text].      *)
(* Tables are flat (no table nested in a cell).                            *)
(***************************************************************************)
EXTENDS Integers, Sequences, FiniteSets, TLC

VARIABLES
    now,        \* wall clock: days elapsed since StartDate
    doc,        \* the HTML document handed to the interpreters
    cpc,        \* _parse_case_result: "idle" | "loop" | "done"
    rows,       \* _parse_case_result: soup.find_all('tr')
    idx,        \* _parse_case_result: number of rows already processed
    result,     \* _parse_case_result: the result dict under construction
    today,      \* _parse_case_result: datetime.now().date() read at line 236
    tomorrow,   \* _parse_case_result: today + timedelta(days=1)
    caseOuts,   \* _parse_case_result(doc): the first and the latest value returned
    causeOuts,  \* _parse_cause_list(doc): the first and the latest value returned
    session,    \* self.session: 0 is None, k > 0 is the k-th AsyncClient built
    created,    \* number of httpx.AsyncClient objects constructed so far
    pc,         \* per task: "idle" | "await" | "done"
    call,       \* per task: the public operation in flight and its arguments
    held,       \* per task: the client _get_session returned to it
    ret         \* per task: what the operation returned

vars == <<now, doc, cpc, rows, idx, result, today, tomorrow,
          caseOuts, causeOuts,
          session, created, pc, call, held, ret>>

parserVars == <<cpc, rows, idx, result, today, tomorrow>>
twiceVars == <<caseOuts, causeOuts>>
facadeVars == <<session, created, pc, call, held, ret>>

-----------------------------------------------------------------------------
(* Bounds of the model *)

\* rows per key/value table of an input document
MaxRows == 2
\* rows per listing table of an input document (header included)
MaxListRows == 4
\* days the wall clock may advance during a run
MaxTicks == 2
\* <option> elements per <select> of an input document
MaxOptions == 2
\* concurrently running public operations
NumTasks == 2

-----------------------------------------------------------------------------
(* Text *)

\* Python's None, distinct from every text (texts hold one-character strings)
None == <<"None">>

Whitespace == {" ", "\t", "\n", "\r"}

UpperLetters == <<"A", "B", "C", "D", "E", "F", "G", "H", "I", "J", "K", "L", "M",
                  "N", "O", "P", "Q", "R", "S", "T", "U", "V", "W", "X", "Y", "Z">>
LowerLetters == <<"a", "b", "c", "d", "e", "f", "g", "h", "i", "j", "k", "l", "m",
                  "n", "o", "p", "q", "r", "s", "t", "u", "v", "w", "x", "y", "z">>
Digits == <<"0", "1", "2", "3", "4", "5", "6", "7", "8", "9">>

\* str.lower on one character
LowerChar(c) ==
    IF \E k \in 1..Len(UpperLetters) : UpperLetters[k] = c
    THEN LowerLetters[CHOOSE k \in 1..Len(UpperLetters) : UpperLetters[k] = c]
    ELSE c

\* str.lower
Lower(s) == [k \in 1..Len(s) |-> LowerChar(s[k])]

\* str.strip: drop leading and trailing whitespace
Strip(s) ==
    LET keep == {k \in 1..Len(s) : s[k] \notin Whitespace}
    IN  IF keep = {} THEN <<>>
        ELSE LET lo == CHOOSE k \in keep : \A j \in keep : k <= j
                 hi == CHOOSE k \in keep : \A j \in keep : j <= k
             IN  SubSeq(s, lo, hi)

\* Python's "sub in s"
Contains(sub, s) ==
    \E k \in 0..(Len(s) - Len(sub)) : SubSeq(s, k + 1, k + Len(sub)) = sub

IsDigit(c) == \E k \in 1..Len(Digits) : Digits[k] = c

DigitVal(c) == (CHOOSE k \in 1..Len(Digits) : Digits[k] = c) - 1

AllDigits(s) == \A k \in 1..Len(s) : IsDigit(s[k])

RECURSIVE NumVal(_)
NumVal(s) ==
    IF s = <<>> THEN 0
    ELSE 10 * NumVal(SubSeq(s, 1, Len(s) - 1)) + DigitVal(s[Len(s)])

kw_hearing_date == <<"h", "e", "a", "r", "i", "n", "g", " ", "d", "a", "t", "e">>
kw_next_date == <<"n", "e", "x", "t", " ", "d", "a", "t", "e">>
kw_court == <<"c", "o", "u", "r", "t">>
kw_serial == <<"s", "e", "r", "i", "a", "l">>
kw_sr == <<"s", "r", ".">>
kw_status == <<"s", "t", "a", "t", "u", "s">>

-----------------------------------------------------------------------------
(* Dates: datetime.date, timedelta(days=1), strptime("%d-%m-%Y") *)

NoDate == [y |-> 0, m |-> 0, d |-> 0]

IsLeap(y) == (y % 4 = 0 /\ y % 100 # 0) \/ y % 400 = 0

DaysInMonth(y, m) ==
    IF m = 2 THEN (IF IsLeap(y) THEN 29 ELSE 28)
    ELSE IF m \in {4, 6, 9, 11} THEN 30 ELSE 31

\* date + timedelta(days=1)
NextDay(dt) ==
    IF dt.d < DaysInMonth(dt.y, dt.m) THEN [dt EXCEPT !.d = dt.d + 1]
    ELSE IF dt.m < 12 THEN [y |-> dt.y, m |-> dt.m + 1, d |-> 1]
    ELSE [y |-> dt.y + 1, m |-> 1, d |-> 1]

\* the date the wall clock shows when the run starts
StartDate == [y |-> 2024, m |-> 12, d |-> 30]

RECURSIVE DateAfter(_, _)
DateAfter(dt, n) == IF n = 0 THEN dt ELSE DateAfter(NextDay(dt), n - 1)

\* datetime.now().date() when the clock reads n
ClockDate(n) == DateAfter(StartDate, n)

\* datetime.strptime(value, "%d-%m-%Y").date(); ok = FALSE is ValueError.
\* %d is 1 or 2 digits in 1..31, %m is 1 or 2 digits in 1..12, %Y is exactly
\* 4 digits; the whole text must match; date() rejects year 0 and a day
\* beyond the month's length.
Strptime(value) ==
    LET dashes == {k \in 1..Len(value) : value[k] = "-"}
    IN  IF Cardinality(dashes) # 2 THEN [ok |-> FALSE, date |-> NoDate]
        ELSE LET p1 == CHOOSE k \in dashes : \A j \in dashes : k <= j
                 p2 == CHOOSE k \in dashes : \A j \in dashes : j <= k
                 ds == SubSeq(value, 1, p1 - 1)
                 ms == SubSeq(value, p1 + 1, p2 - 1)
                 ys == SubSeq(value, p2 + 1, Len(value))
                 shape == /\ Len(ds) \in {1, 2} /\ AllDigits(ds)
                          /\ Len(ms) \in {1, 2} /\ AllDigits(ms)
                          /\ Len(ys) = 4 /\ AllDigits(ys)
             IN  IF /\ shape
                    /\ NumVal(ds) \in 1..31
                    /\ NumVal(ms) \in 1..12
                    /\ NumVal(ys) >= 1
                    /\ NumVal(ds) <= DaysInMonth(NumVal(ys), NumVal(ms))
                 THEN [ok |-> TRUE,
                       date |-> [y |-> NumVal(ys), m |-> NumVal(ms), d |-> NumVal(ds)]]
                 ELSE [ok |-> FALSE, date |-> NoDate]

-----------------------------------------------------------------------------
(* Documents *)

Td(text) == [tag |-> "td", text |-> text]
Th(text) == [tag |-> "th", text |-> text]

\* row.find_all('td')
Tds(row) == SelectSeq(row, LAMBDA c : c.tag = "td")

RECURSIVE Flatten(_)
Flatten(ss) == IF ss = <<>> THEN <<>> ELSE Head(ss) \o Flatten(Tail(ss))

\* soup.find_all('tr')
FindAllTr(d) == Flatten(d.tables)

\* soup.find_all('option')
FindAllOption(d) == Flatten([k \in 1..Len(d.selects) |-> d.selects[k].options])

SeqsUpTo(S, n) == UNION {[1..k -> S] : k \in 0..n}

-----------------------------------------------------------------------------
(* _parse_case_result *)

InitialResult(case_id) ==
    [case_id |-> case_id, found |-> FALSE, listed_today |-> FALSE,
     listed_tomorrow |-> FALSE, serial_number |-> None, court_name |-> None,
     next_hearing_date |-> None, case_status |-> None, details |-> << >>]

\* details[label] = value, on a dict kept as a function
DictSet(dict, key, value) ==
    [k \in DOMAIN dict \cup {key} |-> IF k = key THEN value ELSE dict[k]]

IsHearingLabel(label) ==
    Contains(kw_hearing_date, label) \/ Contains(kw_next_date, label)

\* a plausible slip: the tomorrow branch forgets result["found"]
ClassifyForgetsFound(r, hearing_date, td, tm) ==
    IF hearing_date = td THEN [r EXCEPT !.listed_today = TRUE, !.found = TRUE]
    ELSE IF hearing_date = tm THEN [r EXCEPT !.listed_tomorrow = TRUE]
    ELSE r

\* the body of the try block after strptime succeeded
ClassifyHearingDate(r, hearing_date, td, tm) ==
    IF hearing_date = td THEN [r EXCEPT !.listed_today = TRUE, !.found = TRUE]
    ELSE IF hearing_date = tm THEN [r EXCEPT !.listed_tomorrow = TRUE, !.found = TRUE]
    ELSE r

\* a plausible slip: an unparseable date resets the classification
ParseFailureResets(r) ==
    [r EXCEPT !.found = FALSE, !.listed_today = FALSE, !.listed_tomorrow = FALSE]

\* except: pass
OnParseFailure(r) == r

\* one iteration of "for row in rows"
ProcessRow(r, row, td, tm) ==
    LET cells == Tds(row)
    IN  IF Len(cells) < 2 THEN r
        ELSE
          LET label == Lower(Strip(cells[1].text))
              value == Strip(cells[2].text)
              r1 == [r EXCEPT !.details = DictSet(r.details, label, value)]
              r2 == IF IsHearingLabel(label)
                    THEN LET r2a == [r1 EXCEPT !.next_hearing_date = value]
                             parsed == Strptime(value)
                         IN  IF parsed.ok
                             THEN ClassifyHearingDate(r2a, parsed.date, td, tm)
                             ELSE OnParseFailure(r2a)
                    ELSE r1
              r3 == IF Contains(kw_court, label)
                    THEN [r2 EXCEPT !.court_name = value] ELSE r2
              r4 == IF Contains(kw_serial, label) \/ Contains(kw_sr, label)
                    THEN [r3 EXCEPT !.serial_number = value] ELSE r3
              r5 == IF Contains(kw_status, label)
                    THEN [r4 EXCEPT !.case_status = value] ELSE r4
          IN  r5

RECURSIVE ProcessRows(_, _, _, _)
ProcessRows(r, rs, td, tm) ==
    IF rs = <<>> THEN r
    ELSE ProcessRows(ProcessRow(r, Head(rs), td, tm), Tail(rs), td, tm)

\* the whole function, for a call made when the clock reads n
parse_case_result(html, case_id, n) ==
    ProcessRows(InitialResult(case_id), FindAllTr(html),
                ClockDate(n), NextDay(ClockDate(n)))


-----------------------------------------------------------------------------
(* _parse_cause_list *)

\* a plausible slip: the list outlives the call (a shared or default-argument
\* list), so a later call starts from the entries of the one before
InitialCasesShared ==
    IF causeOuts = <<>> THEN <<>> ELSE causeOuts[Len(causeOuts)].cases

\* cases = []
InitialCases == <<>>

\* soup.find('table'): the first table; found = FALSE is None
FindTable(d) ==
    IF d.tables = <<>> THEN [found |-> FALSE, trs |-> <<>>]
    ELSE [found |-> TRUE, trs |-> d.tables[1]]

\* the dict built for a row with at least 4 cells
CaseEntry(cells) ==
    [serial_number |-> Strip(cells[1].text),
     case_number |-> Strip(cells[2].text),
     parties |-> Strip(cells[3].text),
     advocate |-> IF Len(cells) > 3 THEN Strip(cells[4].text) ELSE <<>>,
     purpose |-> IF Len(cells) > 4 THEN Strip(cells[5].text) ELSE <<>>]

\* a plausible slip: ">= 4" written as "> 4"
KeepsRowOffByOne(cells) == Len(cells) > 4

\* if len(cells) >= 4
KeepsRow(cells) == Len(cells) >= 4

RECURSIVE CollectCases(_, _)
CollectCases(cases, rs) ==
    IF rs = <<>> THEN cases
    ELSE LET cells == Tds(Head(rs))
         IN  CollectCases(IF KeepsRow(cells) THEN Append(cases, CaseEntry(cells))
                          ELSE cases,
                          Tail(rs))

parse_cause_list(html) ==
    LET table == FindTable(html)
        cases == IF table.found
                 THEN CollectCases(InitialCases, SubSeq(table.trs, 2, Len(table.trs)))
                 ELSE InitialCases
    IN  [total_cases |-> Len(cases), cases |-> cases]

-----------------------------------------------------------------------------
(* Input documents of the interpreters *)

L_NextDate == <<"N", "e", "x", "t", " ", "D", "a", "t", "e">>
L_HearingDate == <<"H", "e", "a", "r", "i", "n", "g", " ", "D", "a", "t", "e">>
L_NextHearingPadded == <<" ", "N", "E", "X", "T", " ", "H", "E", "A", "R", "I", "N", "G", " ", "D", "A", "T", "E", " ">>
L_CourtStatus == <<"C", "o", "u", "r", "t", " ", "S", "t", "a", "t", "u", "s">>
L_SrNo == <<"S", "r", ".", " ", "N", "o">>
V_d0_padded == <<" ", "3", "0", "-", "1", "2", "-", "2", "0", "2", "4", " ">>
V_d1 == <<"3", "1", "-", "1", "2", "-", "2", "0", "2", "4">>
V_d2 == <<"0", "1", "-", "0", "1", "-", "2", "0", "2", "5">>
V_d2_short == <<"1", "-", "1", "-", "2", "0", "2", "5">>
V_words == <<"n", "e", "x", "t", " ", "M", "o", "n", "d", "a", "y">>
V_nodate == <<"3", "1", "-", "0", "2", "-", "2", "0", "2", "5">>
V_Pending == <<"P", "e", "n", "d", "i", "n", "g">>
T_1 == <<"1">>
T_2 == <<" ", "2", " ">>
T_3 == <<"3">>
T_CR1 == <<"C", "R", "/", "1">>
T_CR2 == <<"C", "R", "/", "2">>
T_CR3 == <<"C", "R", "/", "3">>
T_AvB == <<"A", " ", "v", " ", "B">>
T_CvD == <<" ", "C", " ", "v", " ", "D">>
T_EvF == <<"E", " ", "v", " ", "F">>
T_AdvX == <<"A", "d", "v", " ", "X">>
T_AdvY == <<"A", "d", "v", " ", "Y">>
T_Args == <<"A", "r", "g", "u", "m", "e", "n", "t", "s">>
T_Sr == <<"S", "r">>
T_Case == <<"C", "a", "s", "e">>
T_Parties == <<"P", "a", "r", "t", "i", "e", "s">>
T_Advocate == <<"A", "d", "v", "o", "c", "a", "t", "e">>
T_Purpose == <<"P", "u", "r", "p", "o", "s", "e">>

KeyValueRows ==
    {<<Td(L_NextDate), Td(V_d1)>>,
     <<Td(L_HearingDate), Td(V_d2)>>,
     <<Td(L_NextHearingPadded), Td(V_d0_padded)>>,
     <<Td(L_NextDate), Td(V_d2_short)>>,
     <<Td(L_NextDate), Td(V_words)>>,
     <<Td(L_HearingDate), Td(V_nodate)>>,
     <<Td(L_CourtStatus), Td(V_Pending)>>,
     <<Td(L_SrNo), Td(T_3)>>,
     <<Th(L_HearingDate), Td(L_NextDate), Td(V_d1)>>,
     <<Td(L_NextDate)>>}

ListingRows ==
    {<<Th(T_Sr), Th(T_Case), Th(T_Parties), Th(T_Advocate), Th(T_Purpose)>>,
     <<Td(T_1), Td(T_CR1), Td(T_AvB), Td(T_AdvX), Td(T_Args)>>,
     <<Td(T_2), Td(T_CR2), Td(T_CvD), Td(T_AdvY)>>,
     <<Td(T_3), Td(T_CR3), Td(T_EvF)>>,
     <<Th(T_Sr), Td(T_1), Td(T_CR1), Td(T_AvB), Td(T_AdvX), Td(T_Args), Td(V_Pending)>>}

\* a table that follows the first one in some documents
LaterTable ==
    <<<<Td(L_HearingDate), Td(V_d1)>>,
      <<Td(T_3), Td(T_CR3), Td(T_EvF), Td(T_AdvX), Td(T_Purpose)>>>>

HtmlDoc(tables) == [tables |-> tables, selects |-> <<>>]

DocsOver(firstTables) ==
    {HtmlDoc(<<>>)}
    \cup {HtmlDoc(<<t>>) : t \in firstTables}
    \cup {HtmlDoc(<<t, LaterTable>>) : t \in firstTables}

CaseDocs == DocsOver(SeqsUpTo(KeyValueRows, MaxRows))

CaseIds == {"DLCT010001232024"}

-----------------------------------------------------------------------------
(* The case result interpreter, one loop iteration per step *)

Tick ==
    /\ now < MaxTicks
    /\ now' = now + 1
    /\ UNCHANGED <<doc, parserVars, twiceVars, facadeVars>>

\* lines 222-239: build the soup and the empty result, read the clock
CaseBegin ==
    /\ cpc \in {"idle", "done"}
    /\ \E case_id \in CaseIds : result' = InitialResult(case_id)
    /\ today' = ClockDate(now)
    /\ tomorrow' = NextDay(ClockDate(now))
    /\ rows' = FindAllTr(doc)
    /\ idx' = 0
    /\ cpc' = "loop"
    /\ UNCHANGED <<now, doc, twiceVars, facadeVars>>

\* lines 240-268: one iteration of the loop
CaseRow ==
    /\ cpc = "loop"
    /\ idx < Len(rows)
    /\ result' = ProcessRow(result, rows[idx + 1], today, tomorrow)
    /\ idx' = idx + 1
    /\ UNCHANGED <<now, doc, cpc, rows, today, tomorrow, twiceVars, facadeVars>>

\* line 270
CaseReturn ==
    /\ cpc = "loop"
    /\ idx = Len(rows)
    /\ cpc' = "done"
    /\ UNCHANGED <<now, doc, rows, idx, result, today, tomorrow, twiceVars, facadeVars>>

NoCall == [op |-> "none"]
NoReturn == [tag |-> "pending"]

ParserIdle ==
    /\ cpc = "idle"
    /\ rows = <<>>
    /\ idx = 0
    /\ result = InitialResult("")
    /\ today = NoDate
    /\ tomorrow = NoDate

TwiceIdle ==
    /\ caseOuts = <<>>
    /\ causeOuts = <<>>

FacadeIdle ==
    /\ session = 0
    /\ created = 0
    /\ pc = [t \in 1..NumTasks |-> "idle"]
    /\ call = [t \in 1..NumTasks |-> NoCall]
    /\ held = [t \in 1..NumTasks |-> 0]
    /\ ret = [t \in 1..NumTasks |-> NoReturn]

InitCase ==
    /\ now = 0
    /\ doc \in CaseDocs
    /\ ParserIdle
    /\ TwiceIdle
    /\ FacadeIdle

NextCase ==
    \/ Tick
    \/ CaseBegin
    \/ CaseRow
    \/ CaseReturn

SpecCase == InitCase /\ [][NextCase]_vars

-----------------------------------------------------------------------------
(* Both interpreters called repeatedly on one document while time passes *)

\* the first value returned and the latest one
Record(outs, o) == IF outs = <<>> THEN <<o>> ELSE <<outs[1], o>>

InterpKeyValueRows ==
    {<<Td(L_NextDate), Td(V_d1)>>,
     <<Td(L_HearingDate), Td(V_d2)>>,
     <<Td(L_NextHearingPadded), Td(V_d0_padded)>>,
     <<Td(L_NextDate), Td(V_words)>>,
     <<Td(L_CourtStatus), Td(V_Pending)>>,
     <<Td(L_NextDate)>>}

InterpListingRows ==
    {<<Td(T_1), Td(T_CR1), Td(T_AvB), Td(T_AdvX), Td(T_Args)>>,
     <<Td(T_2), Td(T_CR2), Td(T_CvD), Td(T_AdvY)>>,
     <<Td(T_3), Td(T_CR3), Td(T_EvF)>>}

InterpDocs ==
    DocsOver(SeqsUpTo(InterpListingRows, MaxRows)
             \cup SeqsUpTo(InterpKeyValueRows, MaxRows))

\* _parse_case_result(doc, case_id), start to return: the function is
\* synchronous, so nothing but the clock can move during it
CaseCall ==
    /\ \E case_id \in CaseIds :
          caseOuts' = Record(caseOuts, [date |-> ClockDate(now),
                                        out |-> parse_case_result(doc, case_id, now)])
    /\ UNCHANGED <<now, doc, causeOuts, parserVars, facadeVars>>

\* _parse_cause_list(doc), start to return
CauseCall ==
    /\ causeOuts' = Record(causeOuts, parse_cause_list(doc))
    /\ UNCHANGED <<now, doc, caseOuts, parserVars, facadeVars>>

InitInterp ==
    /\ now = 0
    /\ doc \in InterpDocs
    /\ ParserIdle
    /\ TwiceIdle
    /\ FacadeIdle

NextInterp ==
    \/ Tick
    \/ CaseCall
    \/ CauseCall

SpecInterp == InitInterp /\ [][NextInterp]_vars

-----------------------------------------------------------------------------
(* The cause list interpreter on listing documents *)

CauseDocs == DocsOver(SeqsUpTo(ListingRows, MaxListRows))

InitCause ==
    /\ now = 0
    /\ doc \in CauseDocs
    /\ ParserIdle
    /\ TwiceIdle
    /\ FacadeIdle

NextCause ==
    \/ CauseCall

SpecCause == InitCause /\ [][NextCause]_vars

-----------------------------------------------------------------------------
(* Properties of _parse_case_result *)

\* row i of the input has at least two cells and a hearing-date label
HearingRow(i) ==
    /\ Len(Tds(rows[i])) >= 2
    /\ IsHearingLabel(Lower(Strip(Tds(rows[i])[1].text)))

\* the value of row i as the code reads it
RowValue(i) == Strip(Tds(rows[i])[2].text)

\* row i is a hearing-date row whose value is dd-mm-yyyy for dt
ParsesTo(i, dt) ==
    /\ HearingRow(i)
    /\ Strptime(RowValue(i)).ok
    /\ Strptime(RowValue(i)).date = dt

Unparseable(i) == HearingRow(i) /\ ~Strptime(RowValue(i)).ok

\* C1: the CaseResult returned by _parse_case_result never has listed_today
\* and listed_tomorrow both true.
C1_FlagsExclusive ==
    cpc = "done" => ~(result.listed_today /\ result.listed_tomorrow)

\* C2: after any sequence of rows has been processed, found is true iff some
\* processed row with at least two cells and a hearing-date label had a value
\* that parsed as dd-mm-yyyy to the evaluation date or to the day after it,
\* and found = (listed_today or listed_tomorrow).
C2_FoundIffListed ==
    cpc \in {"loop", "done"} =>
        /\ result.found <=>
              \E i \in 1..idx : ParsesTo(i, today) \/ ParsesTo(i, NextDay(today))
        /\ result.found <=> (result.listed_today \/ result.listed_tomorrow)

C2_Witness ==
    /\ cpc = "done"
    /\ idx >= 2
    /\ result.found
    /\ result.listed_tomorrow
    /\ ~result.listed_today
    /\ \E i \in 1..idx : HearingRow(i) /\ ~ParsesTo(i, today) /\ ~ParsesTo(i, tomorrow)

\* C10 (per row): processing a hearing-date row whose value does not parse
\* sets next_hearing_date to the raw value and leaves found, listed_today and
\* listed_tomorrow as they were before that row.
C10_RowFrame ==
    (cpc = "loop" /\ idx < Len(rows) /\ idx' = idx + 1 /\ Unparseable(idx + 1)) =>
        /\ result'.next_hearing_date = RowValue(idx + 1)
        /\ result'.found = result.found
        /\ result'.listed_today = result.listed_today
        /\ result'.listed_tomorrow = result.listed_tomorrow

\* C10 (whole input): when every hearing-date row is unparseable, the result
\* has found and both flags false and next_hearing_date is the raw value of
\* the last such row.
C10_AllUnparseable ==
    (/\ cpc = "done"
     /\ \E i \in 1..Len(rows) : HearingRow(i)
     /\ \A i \in 1..Len(rows) : HearingRow(i) => Unparseable(i)) =>
        LET last == CHOOSE i \in 1..Len(rows) :
                        HearingRow(i) /\ \A j \in 1..Len(rows) : HearingRow(j) => j <= i
        IN  /\ ~result.found
            /\ ~result.listed_today
            /\ ~result.listed_tomorrow
            /\ result.next_hearing_date = RowValue(last)

\* C10: an unparseable hearing-date row sets next_hearing_date to the raw
\* value and leaves found and both flags untouched; an input whose hearing-date
\* rows are all unparseable yields found = false, both flags false and the
\* last such row's raw value in next_hearing_date.
C10_UnparseableKeepsFlags == [][C10_RowFrame]_vars /\ []C10_AllUnparseable

C10_Witness ==
    /\ cpc = "loop"
    /\ idx >= 2
    /\ Unparseable(idx)
    /\ result.found
    /\ result.next_hearing_date = RowValue(idx)

-----------------------------------------------------------------------------
(* Properties of _parse_cause_list *)

\* the rows of the first table after its first row
DataRows == IF doc.tables = <<>> THEN <<>>
            ELSE SubSeq(doc.tables[1], 2, Len(doc.tables[1]))

\* the data rows with at least 4 cells
Qualifying == {i \in 1..Len(DataRows) : Len(Tds(DataRows[i])) >= 4}

\* the position in the output of qualifying data row i
Rank(i) == Cardinality({j \in Qualifying : j <= i})

CellText(i, k) == Strip(Tds(DataRows[i])[k].text)

\* C7: _parse_cause_list returns one entry for every row after the first row
\* of the first table that has at least 4 cells, in row order, built from
\* cells 0..3 and from cell 4 when present (else purpose is empty); shorter
\* rows give no entry; total_cases is the number of entries; without a table
\* the result has total_cases = 0 and no cases.
C7_CauseListEntries ==
    \A n \in DOMAIN causeOuts :
        LET out == causeOuts[n]
        IN  /\ out.total_cases = Len(out.cases)
            /\ Len(out.cases) = Cardinality(Qualifying)
            /\ doc.tables = <<>> => (out.total_cases = 0 /\ out.cases = <<>>)
            /\ \A i \in Qualifying :
                  /\ out.cases[Rank(i)].serial_number = CellText(i, 1)
                  /\ out.cases[Rank(i)].case_number = CellText(i, 2)
                  /\ out.cases[Rank(i)].parties = CellText(i, 3)
                  /\ out.cases[Rank(i)].advocate = CellText(i, 4)
                  /\ out.cases[Rank(i)].purpose =
                        IF Len(Tds(DataRows[i])) >= 5 THEN CellText(i, 5) ELSE <<>>

C7_Witness ==
    /\ causeOuts # <<>>
    /\ Len(DataRows) = 3
    /\ Len(Tds(doc.tables[1][1])) >= 4
    /\ Len(Tds(DataRows[1])) = 4
    /\ Len(Tds(DataRows[2])) = 3
    /\ Len(Tds(DataRows[3])) = 5
    /\ causeOuts[1].total_cases = 2
    /\ causeOuts[1].cases[1].purpose = <<>>
    /\ causeOuts[1].cases[2].purpose = Strip(T_Args)

-----------------------------------------------------------------------------
(* Repeated calls of the interpreters on the same document *)

-----------------------------------------------------------------------------
(* The public operations: location fetches *)

N_Delhi == <<"D", "e", "l", "h", "i">>
N_Maharashtra == <<"M", "a", "h", "a", "r", "a", "s", "h", "t", "r", "a">>
N_Karnataka == <<"K", "a", "r", "n", "a", "t", "a", "k", "a">>
N_TamilNadu == <<"T", "a", "m", "i", "l", " ", "N", "a", "d", "u">>
N_Gujarat == <<"G", "u", "j", "a", "r", "a", "t">>
N_Rajasthan == <<"R", "a", "j", "a", "s", "t", "h", "a", "n">>
N_WestBengal == <<"W", "e", "s", "t", " ", "B", "e", "n", "g", "a", "l">>
N_UttarPradesh == <<"U", "t", "t", "a", "r", " ", "P", "r", "a", "d", "e", "s", "h">>
N_MadhyaPradesh == <<"M", "a", "d", "h", "y", "a", " ", "P", "r", "a", "d", "e", "s", "h">>
N_Punjab == <<"P", "u", "n", "j", "a", "b">>
O_7_padded == <<" ", "7", " ">>
O_0 == <<"0">>
O_0_padded == <<" ", "0", " ">>
O_00 == <<"0", "0">>
O_blank == <<" ", " ">>
O_Goa_padded == <<" ", "G", "o", "a", " ">>
O_Select == <<"S", "e", "l", "e", "c", "t", " ", "S", "t", "a", "t", "e">>
O_Kerala == <<"K", "e", "r", "a", "l", "a">>
O_English == <<"E", "n", "g", "l", "i", "s", "h">>
O_en == <<"e", "n">>
D_arg == <<"3", "0", "-", "1", "2", "-", "2", "0", "2", "4">>

\* _get_default_states
get_default_states ==
    <<[code |-> <<"1">>, name |-> N_Delhi],
      [code |-> <<"2">>, name |-> N_Maharashtra],
      [code |-> <<"3">>, name |-> N_Karnataka],
      [code |-> <<"4">>, name |-> N_TamilNadu],
      [code |-> <<"5">>, name |-> N_Gujarat],
      [code |-> <<"6">>, name |-> N_Rajasthan],
      [code |-> <<"7">>, name |-> N_WestBengal],
      [code |-> <<"8">>, name |-> N_UttarPradesh],
      [code |-> <<"9">>, name |-> N_MadhyaPradesh],
      [code |-> <<"1", "0">>, name |-> N_Punjab]>>

\* an <option>; value = None is an option without a value attribute
Option(value, text) == [value |-> value, text |-> text]

\* a plausible slip: the value is used as written, without .strip()
OptionValueRaw(o) == IF o.value = None THEN <<>> ELSE o.value

\* option.get('value', '').strip()
OptionValue(o) == IF o.value = None THEN <<>> ELSE Strip(o.value)

\* if value and value != '0'
KeepsOption(value) == value # <<>> /\ value # <<"0">>

\* the loop "for option in ...find_all('option')"
RECURSIVE ExtractOptions(_, _)
ExtractOptions(acc, options) ==
    IF options = <<>> THEN acc
    ELSE LET value == OptionValue(Head(options))
             text == Strip(Head(options).text)
         IN  ExtractOptions(IF KeepsOption(value)
                            THEN Append(acc, [code |-> value, name |-> text])
                            ELSE acc,
                            Tail(options))

\* soup.find('select', {'id': 'state_code'}) or
\* soup.find('select', {'name': 'state_code'}); found = FALSE is None
FindStateSelect(d) ==
    LET byId == {k \in 1..Len(d.selects) : d.selects[k].id = "state_code"}
        byName == {k \in 1..Len(d.selects) : d.selects[k].name = "state_code"}
        first(S) == CHOOSE k \in S : \A j \in S : k <= j
    IN  IF byId # {} THEN [found |-> TRUE, options |-> d.selects[first(byId)].options]
        ELSE IF byName # {}
        THEN [found |-> TRUE, options |-> d.selects[first(byName)].options]
        ELSE [found |-> FALSE, options |-> <<>>]

\* a plausible slip: the fallback list is added to whatever was extracted
StatesBlended(states) == states \o get_default_states

\* if not states: states = self._get_default_states()
StatesOrDefault(states) == IF states = <<>> THEN get_default_states ELSE states

ListOf(entries) == [tag |-> "list", val |-> entries]
DictOf(d) == [tag |-> "dict", val |-> d]
PathOf(p) == [tag |-> "str", val |-> p]
NoneValue == [tag |-> "none"]

\* the except branch of fetch_states
fetch_states_on_error == ListOf(get_default_states)

\* a plausible slip: the except branch returns None instead of []
fetch_districts_returns_none == NoneValue

\* the except branch of fetch_districts
fetch_districts_on_error == ListOf(<<>>)

\* the except branch of fetch_court_complexes
fetch_court_complexes_on_error == ListOf(<<>>)

\* the except branch of fetch_courts
fetch_courts_on_error == ListOf(<<>>)

\* what fetch_states returns for a transport outcome
fetch_states_result(o) ==
    IF o.kind = "raise" THEN fetch_states_on_error
    ELSE LET state_select == FindStateSelect(o.body)
             states == IF state_select.found
                       THEN ExtractOptions(<<>>, state_select.options)
                       ELSE <<>>
         IN  ListOf(StatesOrDefault(states))

fetch_districts_result(o) ==
    IF o.kind = "raise" THEN fetch_districts_on_error
    ELSE ListOf(ExtractOptions(<<>>, FindAllOption(o.body)))

fetch_court_complexes_result(o) ==
    IF o.kind = "raise" THEN fetch_court_complexes_on_error
    ELSE ListOf(ExtractOptions(<<>>, FindAllOption(o.body)))

fetch_courts_result(o) ==
    IF o.kind = "raise" THEN fetch_courts_on_error
    ELSE ListOf(ExtractOptions(<<>>, FindAllOption(o.body)))

-----------------------------------------------------------------------------
(* The public operations: searches, cause list, download *)

\* an absent optional argument (Python's None)
NoArg == "<None>"

\* Python truthiness of an optional string argument
Truthy(x) == x \notin {NoArg, ""}

search_case_by_cnr_result(o, a, n) ==
    IF o.kind = "raise" THEN NoneValue
    ELSE DictOf(parse_case_result(o.body, a.cnr, n)
                @@ [search_type |-> "CNR", cnr |-> a.cnr])

search_case_by_details_result(o, a, n) ==
    IF o.kind = "raise" THEN NoneValue
    ELSE DictOf(parse_case_result(o.body,
                                  a.case_type \o "/" \o a.case_number \o "/" \o a.case_year,
                                  n)
                @@ [search_type |-> "DETAILS",
                    case_details |-> [case_type |-> a.case_type,
                                      case_number |-> a.case_number,
                                      case_year |-> a.case_year]])

\* the except branch of fetch_cause_list
fetch_cause_list_on_error(e) == DictOf([error |-> e, cases |-> <<>>])

fetch_cause_list_result(o, a, n) ==
    IF o.kind = "raise" THEN fetch_cause_list_on_error(o.error)
    ELSE DictOf(parse_cause_list(o.body)
                @@ [metadata |-> [state_code |-> a.state_code,
                                  district_code |-> a.district_code,
                                  court_complex_code |-> a.court_complex_code,
                                  court_code |-> a.court_code,
                                  date |-> a.date,
                                  fetched_at |-> n]])

\* date.replace('-', '')
WithoutDashes(s) == SelectSeq(s, LAMBDA c : c # "-")

\* os.path.join('downloads', f"cause_list_{...}.pdf")
PdfPath(a) ==
    [dir |-> "downloads", prefix |-> "cause_list", state_code |-> a.state_code,
     district_code |-> a.district_code, court_complex_code |-> a.court_complex_code,
     date |-> WithoutDashes(a.date), suffix |-> ".pdf"]

\* fs_ok = FALSE: os.makedirs, open or write raises OSError
download_cause_list_pdf_result(o, a, fs_ok) ==
    IF o.kind = "raise" THEN NoneValue
    ELSE IF o.status = 200 /\ o.ctype = "application/pdf"
         THEN (IF fs_ok THEN PathOf(PdfPath(a)) ELSE NoneValue)
         ELSE NoneValue

-----------------------------------------------------------------------------
(* Requests *)

base_url == "https://services.ecourts.gov.in/ecourtindia_v6"

\* the optional court_code entry of the form data
CourtCodeData(a) ==
    IF Truthy(a.court_code) THEN [court_code |-> a.court_code] ELSE <<>>

\* the url and the form data each operation sends
RequestOf(op, a) ==
    CASE op = "fetch_states" ->
            [method |-> "GET", url |-> base_url \o "/?p=cause_list/", data |-> <<>>]
      [] op = "fetch_districts" ->
            [method |-> "POST", url |-> base_url \o "/ajax/get_district.php",
             data |-> [state_code |-> a.state_code]]
      [] op = "fetch_court_complexes" ->
            [method |-> "POST", url |-> base_url \o "/ajax/get_court_complex.php",
             data |-> [state_code |-> a.state_code, dist_code |-> a.district_code]]
      [] op = "fetch_courts" ->
            [method |-> "POST", url |-> base_url \o "/ajax/get_court.php",
             data |-> [state_code |-> a.state_code, dist_code |-> a.district_code,
                       court_complex_code |-> a.complex_code]]
      [] op = "search_case_by_cnr" ->
            [method |-> "POST", url |-> base_url \o "/ajax/search_case_cnr.php",
             data |-> [cnr |-> a.cnr]
                      @@ (IF Truthy(a.state_code)
                          THEN [state_code |-> a.state_code] ELSE <<>>)
                      @@ (IF Truthy(a.district_code)
                          THEN [dist_code |-> a.district_code] ELSE <<>>)]
      [] op = "search_case_by_details" ->
            [method |-> "POST", url |-> base_url \o "/ajax/search_case_details.php",
             data |-> [state_code |-> a.state_code, dist_code |-> a.district_code,
                       court_code |-> a.court_code, case_type |-> a.case_type,
                       case_no |-> a.case_number, case_year |-> a.case_year]]
      [] op = "fetch_cause_list" ->
            [method |-> "POST", url |-> base_url \o "/ajax/get_cause_list.php",
             data |-> [state_code |-> a.state_code, dist_code |-> a.district_code,
                       court_complex_code |-> a.court_complex_code, date |-> a.date]
                      @@ CourtCodeData(a)]
      [] op = "download_cause_list_pdf" ->
            [method |-> "POST", url |-> base_url \o "/ajax/download_cause_list_pdf.php",
             data |-> [state_code |-> a.state_code, dist_code |-> a.district_code,
                       court_complex_code |-> a.court_complex_code, date |-> a.date]
                      @@ CourtCodeData(a)]

\* the arguments the callers pass
ArgsOf(op) ==
    CASE op = "fetch_states" -> {[none |-> NoArg]}
      [] op = "fetch_districts" -> {[state_code |-> "7"]}
      [] op = "fetch_court_complexes" -> {[state_code |-> "7", district_code |-> "2"]}
      [] op = "fetch_courts" ->
            {[state_code |-> "7", district_code |-> "2", complex_code |-> "5"]}
      [] op = "search_case_by_cnr" ->
            {[cnr |-> "DLCT010001232024", state_code |-> NoArg, district_code |-> NoArg],
             [cnr |-> "DLCT010001232024", state_code |-> "7", district_code |-> "2"]}
      [] op = "search_case_by_details" ->
            {[state_code |-> "7", district_code |-> "2", court_code |-> "3",
              case_type |-> "CS", case_number |-> "123", case_year |-> "2024"]}
      [] op = "fetch_cause_list" ->
            {[state_code |-> "7", district_code |-> "2", court_complex_code |-> "5",
              court_code |-> c, date |-> D_arg] : c \in {NoArg, "3"}}
      [] op = "download_cause_list_pdf" ->
            {[state_code |-> "7", district_code |-> "2", court_complex_code |-> "5",
              court_code |-> c, date |-> D_arg] : c \in {NoArg, "3"}}

Ops == {"fetch_states", "fetch_districts", "fetch_court_complexes", "fetch_courts",
        "search_case_by_cnr", "search_case_by_details", "fetch_cause_list",
        "download_cause_list_pdf"}

-----------------------------------------------------------------------------
(* Transport outcomes *)

\* session.get / session.post raises (httpx.ConnectError, httpx.ReadTimeout)
Raises == {[kind |-> "raise", error |-> e] : e \in {"ConnectError", "ReadTimeout"}}

Response(status, ctype, body) ==
    [kind |-> "response", status |-> status, ctype |-> ctype, body |-> body]

Pending == [kind |-> "pending"]

\* httpx returns a response for every status; nothing in the code calls
\* raise_for_status
Statuses == {200, 500}

OptionPool ==
    {Option(O_7_padded, N_Delhi),
     Option(O_00, O_Goa_padded),
     Option(O_0, O_Select),
     Option(O_0_padded, O_Select),
     Option(O_blank, O_Kerala),
     Option(None, O_Kerala)}

Select(id, name, options) == [id |-> id, name |-> name, options |-> options]

\* the id and name attributes of the first select of a document
SelectAttrs == {<<"state_code", "state_code">>, <<"sess_state_code", "state_code">>,
                <<"language", "language">>}

\* selects that follow the first one in some documents
LaterSelects ==
    {Select("state_code", "state_code", <<Option(O_0, O_Select)>>),
     Select("language", "language", <<Option(O_en, O_English)>>)}

OptionDoc(selects) == [tables |-> <<>>, selects |-> selects]

OptionDocs ==
    {OptionDoc(<<>>)}
    \cup {OptionDoc(<<Select(a[1], a[2], os)>>) :
              a \in SelectAttrs, os \in SeqsUpTo(OptionPool, MaxOptions)}
    \cup {OptionDoc(<<Select(a[1], a[2], os), later>>) :
              a \in SelectAttrs, os \in SeqsUpTo(OptionPool, MaxOptions),
              later \in LaterSelects}

HtmlOutcomes(bodies) ==
    Raises \cup {Response(s, "text/html", b) : s \in Statuses, b \in bodies}

PdfOutcomes ==
    Raises \cup {Response(s, c, HtmlDoc(<<>>)) :
                    s \in Statuses, c \in {"application/pdf", "text/html"}}

-----------------------------------------------------------------------------
(* The public operations as steps of concurrently running tasks *)

\* a plausible slip: a client is built on every call
NeedsNewSessionAlways == TRUE

\* if not self.session
NeedsNewSession == session = 0

\* A public operation from its call to the await of session.get/post:
\* "await self._get_session()" runs without suspending (the coroutine holds
\* no await), so the test and the assignment of self.session, the building
\* of the request and its dispatch are one step of the event loop.
Begin(t) ==
    /\ pc[t] = "idle"
    /\ \E op \in Ops : \E a \in ArgsOf(op) :
          call' = [call EXCEPT ![t] = [op |-> op, args |-> a,
                                       request |-> RequestOf(op, a),
                                       outcome |-> Pending]]
    /\ created' = IF NeedsNewSession THEN created + 1 ELSE created
    /\ session' = IF NeedsNewSession THEN created + 1 ELSE session
    /\ held' = [held EXCEPT ![t] = session']
    /\ pc' = [pc EXCEPT ![t] = "await"]
    /\ UNCHANGED <<now, doc, ret, parserVars, twiceVars>>

\* the rest of an operation, from the outcome of the request to its return
Resume(t, op, o, value) ==
    /\ pc[t] = "await"
    /\ call[t].op = op
    /\ call' = [call EXCEPT ![t].outcome = o]
    /\ ret' = [ret EXCEPT ![t] = value]
    /\ pc' = [pc EXCEPT ![t] = "done"]
    /\ UNCHANGED <<now, doc, session, created, held, parserVars, twiceVars>>

fetch_states(t, outs) ==
    \E o \in outs : Resume(t, "fetch_states", o, fetch_states_result(o))

fetch_districts(t, outs) ==
    \E o \in outs : Resume(t, "fetch_districts", o, fetch_districts_result(o))

fetch_court_complexes(t, outs) ==
    \E o \in outs :
        Resume(t, "fetch_court_complexes", o, fetch_court_complexes_result(o))

fetch_courts(t, outs) ==
    \E o \in outs : Resume(t, "fetch_courts", o, fetch_courts_result(o))

search_case_by_cnr(t, outs) ==
    \E o \in outs :
        Resume(t, "search_case_by_cnr", o,
               search_case_by_cnr_result(o, call[t].args, now))

search_case_by_details(t, outs) ==
    \E o \in outs :
        Resume(t, "search_case_by_details", o,
               search_case_by_details_result(o, call[t].args, now))

fetch_cause_list(t, outs) ==
    \E o \in outs :
        Resume(t, "fetch_cause_list", o,
               fetch_cause_list_result(o, call[t].args, now))

download_cause_list_pdf(t, outs) ==
    \E o \in outs : \E fs_ok \in BOOLEAN :
        Resume(t, "download_cause_list_pdf", o,
               download_cause_list_pdf_result(o, call[t].args, fs_ok))

\* the caller takes the returned value; the task may call again
Finish(t) ==
    /\ pc[t] = "done"
    /\ pc' = [pc EXCEPT ![t] = "idle"]
    /\ call' = [call EXCEPT ![t] = NoCall]
    /\ ret' = [ret EXCEPT ![t] = NoReturn]
    /\ held' = [held EXCEPT ![t] = 0]
    /\ UNCHANGED <<now, doc, session, created, parserVars, twiceVars>>

InitFacade ==
    /\ now = 0
    /\ doc = HtmlDoc(<<>>)
    /\ ParserIdle
    /\ TwiceIdle
    /\ FacadeIdle

-----------------------------------------------------------------------------
(* One operation at a time, over many responses *)

SearchBodies == DocsOver(SeqsUpTo(InterpKeyValueRows, 1))

ListingBodies == DocsOver(SeqsUpTo(InterpListingRows, MaxRows))

NextOps ==
    \/ Begin(1)
    \/ fetch_states(1, HtmlOutcomes(OptionDocs))
    \/ fetch_districts(1, HtmlOutcomes(OptionDocs))
    \/ fetch_court_complexes(1, HtmlOutcomes(OptionDocs))
    \/ fetch_courts(1, HtmlOutcomes(OptionDocs))
    \/ search_case_by_cnr(1, HtmlOutcomes(SearchBodies))
    \/ search_case_by_details(1, HtmlOutcomes(SearchBodies))
    \/ fetch_cause_list(1, HtmlOutcomes(ListingBodies))
    \/ download_cause_list_pdf(1, PdfOutcomes)
    \/ Finish(1)

SpecOps == InitFacade /\ [][NextOps]_vars

-----------------------------------------------------------------------------
(* Concurrent operations on one ECourtsScraper *)

Tasks == 1..NumTasks

OneOptionDoc ==
    {OptionDoc(<<Select("state_code", "state_code", <<Option(O_7_padded, N_Delhi)>>)>>)}

OneCaseDoc == {HtmlDoc(<<<<<<Td(L_NextDate), Td(V_d1)>>>>>>)}

OneListingDoc ==
    {HtmlDoc(<<<<<<Th(T_Sr)>>, <<Td(T_1), Td(T_CR1), Td(T_AvB), Td(T_AdvX)>>>>>>)}

\* one failure and one success per operation
FewOutcomes(bodies) ==
    {[kind |-> "raise", error |-> "ConnectError"]}
    \cup {Response(200, "text/html", b) : b \in bodies}

FewPdfOutcomes ==
    {[kind |-> "raise", error |-> "ConnectError"],
     Response(200, "application/pdf", HtmlDoc(<<>>))}

Next ==
    \/ \E t \in Tasks : Begin(t)
    \/ \E t \in Tasks : fetch_states(t, FewOutcomes(OneOptionDoc))
    \/ \E t \in Tasks : fetch_districts(t, FewOutcomes(OneOptionDoc))
    \/ \E t \in Tasks : fetch_court_complexes(t, FewOutcomes(OneOptionDoc))
    \/ \E t \in Tasks : fetch_courts(t, FewOutcomes(OneOptionDoc))
    \/ \E t \in Tasks : search_case_by_cnr(t, FewOutcomes(OneCaseDoc))
    \/ \E t \in Tasks : search_case_by_details(t, FewOutcomes(OneCaseDoc))
    \/ \E t \in Tasks : fetch_cause_list(t, FewOutcomes(OneListingDoc))
    \/ \E t \in Tasks : download_cause_list_pdf(t, FewPdfOutcomes)
    \/ \E t \in Tasks : Finish(t)

Spec == InitFacade /\ [][Next]_vars

-----------------------------------------------------------------------------
(* Properties of the public operations *)

Done(t, op) == pc[t] = "done" /\ call[t].op = op

Answered(t) == pc[t] = "done" /\ call[t].outcome.kind = "response"

Raised(t) == pc[t] = "done" /\ call[t].outcome.kind = "raise"

\* the request failed: an exception of the transport, or a non-success status
TransportFailed(o) ==
    \/ o.kind = "raise"
    \/ o.kind = "response" /\ o.status \notin 200..299

LocationFetches == {"fetch_districts", "fetch_court_complexes", "fetch_courts"}

\* an option counts: its trimmed value is neither empty nor "0"
Qualifies(o) == o.value # None /\ Strip(o.value) \notin {<<>>, <<"0">>}

QualifyingIn(options) == {i \in 1..Len(options) : Qualifies(options[i])}

\* list holds one trimmed (code, name) entry per qualifying option, in order
MatchesOptions(list, options) ==
    /\ Len(list) = Cardinality(QualifyingIn(options))
    /\ \A i \in QualifyingIn(options) :
          list[Cardinality({j \in QualifyingIn(options) : j <= i})]
              = [code |-> Strip(options[i].value), name |-> Strip(options[i].text)]

\* the options fetch_states reads: those of the first select with id
\* state_code, or without one those of the first select named state_code
StateOptions(d) ==
    LET ids == {k \in 1..Len(d.selects) : d.selects[k].id = "state_code"}
        names == {k \in 1..Len(d.selects) : d.selects[k].name = "state_code"}
        pick == IF ids # {} THEN ids ELSE names
    IN  IF pick = {} THEN <<>>
        ELSE d.selects[CHOOSE k \in pick : \A j \in pick : k <= j].options

\* C3 as claimed: on a network error, a timeout or a non-success status every
\* public operation returns its no-data result: an empty sequence for the
\* location fetches, None for the searches and the download, an empty cause
\* list for fetch_cause_list.
C3_FailureGivesNoData ==
    \A t \in Tasks :
        (pc[t] = "done" /\ TransportFailed(call[t].outcome)) =>
            /\ call[t].op \in LocationFetches \cup {"fetch_states"} =>
                  ret[t] = ListOf(<<>>)
            /\ call[t].op \in {"search_case_by_cnr", "search_case_by_details",
                               "download_cause_list_pdf"} =>
                  ret[t] = NoneValue
            /\ call[t].op = "fetch_cause_list" =>
                  ret[t].tag = "dict" /\ ret[t].val.cases = <<>>

\* C3 amended: when the transport raises (network error, timeout) no public
\* operation propagates it: fetch_states returns the built-in list, the other
\* location fetches an empty sequence, the searches and the download None,
\* fetch_cause_list a dict holding the error text and an empty cases list.  A
\* response with a non-success status raises nothing and is read like any
\* other response: the location fetches return the options of its body, the
\* searches a CaseResult, fetch_cause_list a cause list with its metadata; only the
\* download checks the status and returns None.
C3_RaiseGivesNoData ==
    \A t \in Tasks :
        /\ Raised(t) =>
              /\ call[t].op = "fetch_states" => ret[t] = ListOf(get_default_states)
              /\ call[t].op \in LocationFetches => ret[t] = ListOf(<<>>)
              /\ call[t].op \in {"search_case_by_cnr", "search_case_by_details",
                                 "download_cause_list_pdf"} =>
                    ret[t] = NoneValue
              /\ call[t].op = "fetch_cause_list" =>
                    ret[t] = DictOf([error |-> call[t].outcome.error, cases |-> <<>>])
        /\ (Answered(t) /\ call[t].outcome.status \notin 200..299) =>
              /\ call[t].op = "fetch_states" => ret[t].tag = "list"
              /\ call[t].op \in LocationFetches =>
                    /\ ret[t].tag = "list"
                    /\ MatchesOptions(ret[t].val, FindAllOption(call[t].outcome.body))
              /\ call[t].op \in {"search_case_by_cnr", "search_case_by_details"} =>
                    ret[t].tag = "dict" /\ ret[t].val.found \in BOOLEAN
              /\ call[t].op = "fetch_cause_list" =>
                    /\ ret[t].tag = "dict"
                    /\ ret[t].val.total_cases = Len(ret[t].val.cases)
                    /\ "metadata" \in DOMAIN ret[t].val
              /\ call[t].op = "download_cause_list_pdf" => ret[t] = NoneValue

C3_Witness ==
    \E t \in Tasks :
        /\ Raised(t)
        /\ call[t].op = "fetch_districts"
        /\ call[t].outcome.error = "ReadTimeout"
        /\ ret[t] = ListOf(<<>>)

\* C4: every value fetch_cause_list returns, on success and on failure,
\* holds total_cases = len(cases) and the metadata of the call.
C4_CauseListShape ==
    \A t \in Tasks :
        Done(t, "fetch_cause_list") =>
            /\ ret[t].tag = "dict"
            /\ {"total_cases", "cases", "metadata"} \subseteq DOMAIN ret[t].val
            /\ ret[t].val.total_cases = Len(ret[t].val.cases)
            /\ ret[t].val.metadata.state_code = call[t].args.state_code
            /\ ret[t].val.metadata.district_code = call[t].args.district_code
            /\ ret[t].val.metadata.court_complex_code = call[t].args.court_complex_code
            /\ ret[t].val.metadata.court_code = call[t].args.court_code
            /\ ret[t].val.metadata.date = call[t].args.date
            /\ "fetched_at" \in DOMAIN ret[t].val.metadata

\* C5 as claimed: fetch_states returns the built-in list whenever the
\* response yields no valid option, and whenever the response contains a
\* valid option it returns only options extracted from the response.
C5_FallbackOrExtracted ==
    \A t \in Tasks :
        Done(t, "fetch_states") =>
            LET o == call[t].outcome
                all == IF o.kind = "raise" THEN <<>> ELSE FindAllOption(o.body)
            IN  IF QualifyingIn(all) = {}
                THEN ret[t] = ListOf(get_default_states)
                ELSE /\ ret[t].tag = "list"
                     /\ \A n \in 1..Len(ret[t].val) :
                           \E i \in QualifyingIn(all) :
                               ret[t].val[n] = [code |-> Strip(all[i].value),
                                                name |-> Strip(all[i].text)]

\* C5 amended: fetch_states returns exactly the built-in 10-entry list with
\* codes "1".."10" whenever the request fails or the select it reads (the
\* first with id state_code, else the first named state_code) is missing or
\* holds no valid option; whenever that select holds a valid option it
\* returns only the options extracted from it, never mixed with the fallback.
C5_FallbackOrStateSelect ==
    \A t \in Tasks :
        Done(t, "fetch_states") =>
            LET o == call[t].outcome
                opts == IF o.kind = "raise" THEN <<>> ELSE StateOptions(o.body)
            IN  IF QualifyingIn(opts) = {}
                THEN /\ ret[t] = ListOf(get_default_states)
                     /\ Len(ret[t].val) = 10
                     /\ \A n \in 1..10 : NumVal(ret[t].val[n].code) = n
                ELSE /\ ret[t].tag = "list"
                     /\ MatchesOptions(ret[t].val, opts)

C5_Witness ==
    \E t \in Tasks :
        /\ Done(t, "fetch_states")
        /\ Answered(t)
        /\ Len(call[t].outcome.body.selects) = 2
        /\ QualifyingIn(StateOptions(call[t].outcome.body)) # {}
        /\ QualifyingIn(FindAllOption(call[t].outcome.body))
              # QualifyingIn(StateOptions(call[t].outcome.body))
        /\ Len(ret[t].val) = 1

\* C6: the location fetches return one (code, name) entry per option whose
\* trimmed value is non-empty and not "0", in document order, code and name
\* trimmed; fetch_districts, fetch_court_complexes and fetch_courts read every
\* option of the response and return an empty sequence when none qualifies;
\* the option loop of fetch_states does the same over the select it reads.
C6_OneEntryPerValidOption ==
    \A t \in Tasks :
        Answered(t) =>
            /\ call[t].op \in LocationFetches =>
                  /\ ret[t].tag = "list"
                  /\ MatchesOptions(ret[t].val, FindAllOption(call[t].outcome.body))
                  /\ QualifyingIn(FindAllOption(call[t].outcome.body)) = {} =>
                        ret[t].val = <<>>
            /\ (/\ call[t].op = "fetch_states"
                /\ QualifyingIn(StateOptions(call[t].outcome.body)) # {}) =>
                  MatchesOptions(ret[t].val, StateOptions(call[t].outcome.body))

C6_Witness ==
    \E t \in Tasks :
        /\ Answered(t)
        /\ call[t].op = "fetch_courts"
        /\ Len(FindAllOption(call[t].outcome.body)) = 3
        /\ ~Qualifies(FindAllOption(call[t].outcome.body)[1])
        /\ Len(ret[t].val) = 2
        /\ ret[t].val[1].code = <<"7">>

\* C8: for one ECourtsScraper and any interleaving of its operations, the
\* client is built at most once: the first _get_session call builds it,
\* every operation in flight holds that same client, and self.session is
\* never replaced (it is always the only client ever built).
C8_SessionCreatedOnce ==
    /\ created <= 1
    /\ session = created
    /\ \A t \in Tasks : pc[t] # "idle" => (held[t] = session /\ held[t] = 1)

C8_Witness ==
    \E t, u \in Tasks :
        /\ t # u
        /\ pc[t] = "await"
        /\ pc[u] = "await"
        /\ held[t] = held[u]
        /\ held[t] = session
        /\ created = 1

=============================================================================
